---- MODULE Spec2Model ----
(***************************************************************************)
(* Model of AzureVoiceClient (src/src/azure_voice_client.py): the dataset  *)
(* upload pipeline (upload_training_data and the per-file retrying upload  *)
(* _upload_audio_file run under asyncio.gather), the training monitor      *)
(* (_monitor_training_progress) and the orchestrator (create_custom_voice).*)
(* Every action is one step of the event loop: the code that runs between  *)
(* two awaits of one coroutine.                                            *)
(***************************************************************************)
EXTENDS Integers, Sequences, FiniteSets, TLC

\* ---------------------------------------------------------------- bounds
MaxRecords == 2
MaxWorkers == 1
MaxPolls == 3

\* ------------------------------------------------------ program constants
max_retries == 3
retry_delay == 1
poll_interval == 60
default_max_workers == 4

RECURSIVE Pow2(_)
Pow2(n) == IF n = 0 THEN 1 ELSE 2 * Pow2(n - 1)

\* ----------------------------------------------------- the local file system
\* Two existing files with the same file name in different directories and
\* different content, and one path that is in the manifest but not on disk.
FileA1 == [dir |-> "d1", name |-> "a.wav"]
FileA2 == [dir |-> "d2", name |-> "a.wav"]
FileB  == [dir |-> "d1", name |-> "b.wav"]
Files == {FileA1, FileA2, FileB}
Names == {f.name : f \in Files}

Exists(f) == f \in {FileA1, FileA2}
Content(f) == IF f = FileA1 THEN 1 ELSE IF f = FileA2 THEN 2 ELSE 0
Size(f) == IF f = FileA1 THEN 10 ELSE IF f = FileA2 THEN 20 ELSE 0

\* hashlib.sha256 over the file's chunks: a deterministic function of the
\* content that separates the contents in play.
calculate_file_hash(f) == ((Content(f) * 37) + 11) % 256

\* Path(audio_path).name prefixed with "audio/": the remote key is the file
\* name only, the directory is dropped.
blob_name(f) == f.name

NoHash == -1

\* ------------------------------------------------------------ the dataset
required_fields == {"audio_file", "text", "duration"}

GoodRecord(f) == [audio_file |-> f, fields |-> {"audio_file", "text", "duration"}]
BadRecord(f) == [audio_file |-> f, fields |-> {"audio_file", "transcript", "duration"}]
Records == {GoodRecord(f) : f \in Files} \cup {BadRecord(FileA1)}

\* DatasetPreparation.create_training_dataset: one record per audio file that
\* has a transcript, with the keys audio_file, transcript and duration.
RECURSIVE create_training_dataset(_, _)
create_training_dataset(audio_files, transcripts) ==
    IF audio_files = <<>> THEN <<>>
    ELSE IF Head(audio_files) \notin transcripts
         THEN create_training_dataset(Tail(audio_files), transcripts)
         ELSE <<[audio_file |-> Head(audio_files),
                 fields |-> {"audio_file", "transcript", "duration"}]>>
              \o create_training_dataset(Tail(audio_files), transcripts)

\* export_dataset writes that list as JSON; the pipeline parses it back.
ExportedDatasets ==
    {create_training_dataset(fs, ts) :
        fs \in UNION {[1..n -> {FileA1}] : n \in 0..MaxRecords},
        ts \in SUBSET {FileA1}}

Datasets == UNION {[1..n -> Records] : n \in 0..MaxRecords}

validate_dataset_format(ds) ==
    \A i \in 1..Len(ds) : \A field \in required_fields : field \in ds[i].fields

RECURSIVE SizeUpTo(_, _)
SizeUpTo(ds, n) ==
    IF n = 0 THEN 0
    ELSE SizeUpTo(ds, n - 1)
         + (IF Exists(ds[n].audio_file) THEN Size(ds[n].audio_file) ELSE 0)

calculate_total_size(ds) == SizeUpTo(ds, Len(ds))

\* ------------------------------------------------------------ AzureConfig
\* os.getenv yields None ("None" here) for an unset variable, else its value,
\* which may be the empty string.
EnvNames == {"AZURE_SPEECH_KEY", "AZURE_SPEECH_REGION",
             "AZURE_STORAGE_CONNECTION_STRING", "AZURE_CONTAINER_NAME"}
EnvValues == {"None", "", "value"}
Environs == [EnvNames -> EnvValues]

getenv(environ, name, default) ==
    IF environ[name] = "None" THEN default ELSE environ[name]

AzureConfig(environ) ==
    [SPEECH_KEY |-> getenv(environ, "AZURE_SPEECH_KEY", "None"),
     SPEECH_REGION |-> getenv(environ, "AZURE_SPEECH_REGION", "None"),
     STORAGE_CONNECTION_STRING |->
         getenv(environ, "AZURE_STORAGE_CONNECTION_STRING", "None"),
     CONTAINER_NAME |-> getenv(environ, "AZURE_CONTAINER_NAME", "voice-samples")]

Configs == {AzureConfig(e) : e \in Environs}

CompleteConfig == [SPEECH_KEY |-> "value", SPEECH_REGION |-> "value",
                   STORAGE_CONNECTION_STRING |-> "value",
                   CONTAINER_NAME |-> "voice-samples"]

required_vars == <<"SPEECH_KEY", "SPEECH_REGION", "STORAGE_CONNECTION_STRING">>

\* not getattr(cls, var): None and the empty string are both falsy.
Falsy(v) == v \in {"None", ""}

IsUnset(v) == v = "None"

IsMissing(v) == Falsy(v)

\* missing_vars = [var for var in required_vars if not getattr(cls, var)]
missing_vars(cfg) == SelectSeq(required_vars, LAMBDA var : IsMissing(cfg[var]))

AllClients == {"speech_config", "blob_service_client", "container_client"}

\* ------------------------------------------------------------------ state
VARIABLES
    op,              \* the public operation the caller invoked
    max_workers,     \* argument of upload_training_data
    model_name_ok,   \* input: model_name is acceptable
    locale_ok,       \* input: locale is acceptable
    readable,        \* input: the dataset file can be opened and parsed
    dataset,         \* input: the parsed manifest, a sequence of records
    up,              \* position of upload_training_data
    upErr,           \* exception raised by upload_training_data
    total_size,      \* local of upload_training_data
    sem,             \* value of the asyncio.Semaphore(max_workers)
    tasks,           \* the _upload_audio_file coroutines handed to gather
    failures,        \* local of upload_training_data: the exceptions among results
    containerExists, \* remote store: the container exists
    manifestStored,  \* remote store: the manifest object is stored
    blobs,           \* remote store: file_hash metadata of blob audio/<name>
    remoteOps,       \* kinds of remote calls issued so far
    cv,              \* position of create_custom_voice
    cvErr,           \* exception raised by create_custom_voice
    submitted,       \* a training request was submitted
    mon,             \* state of _monitor_training_progress
    model,           \* status of the VoiceModel returned, "none" before
    creations,       \* remote store: who created a container under the name
    environ,         \* the process environment read by AzureConfig
    config,          \* the class attributes of AzureConfig
    client,          \* construction of the AzureVoiceClient
    main,            \* position of VoiceSynthesisSystem.create_voice_model
    job_status       \* training service: the status the job reports when asked

vars == <<op, max_workers, model_name_ok, locale_ok, readable, dataset, up,
          upErr, total_size, sem, tasks, failures, containerExists,
          manifestStored, blobs, remoteOps, cv, cvErr, submitted, mon, model,
          creations, environ, config, client, main, job_status>>

\* The inputs of the operation, and the state of its callers, which no step
\* of the client's coroutines changes.
inputVars == <<op, max_workers, model_name_ok, locale_ok, readable, dataset,
               environ, config, client, main, job_status>>
uploadVars == <<up, upErr, total_size, sem, tasks, failures>>
storeVars == <<containerExists, creations, manifestStored, blobs, remoteOps>>
voiceVars == <<cv, cvErr, submitted, mon, model>>

NoErr == [kind |-> "none", attempt |-> 0]

NewTask == [pc |-> "pending", attempt |-> 0, n_attempts |-> 0,
            sleeps |-> <<>>, file_hash |-> NoHash, err |-> NoErr]

NoConfigError == [kind |-> "none", missing |-> <<>>]

NewClient(path) == [state |-> "new", config_path |-> path, clients |-> {},
                    err |-> NoConfigError]

ConstructedClient == [state |-> "constructed", config_path |-> FALSE,
                      clients |-> AllClients, err |-> NoConfigError]

NewMonitor == [pc |-> "idle", queries |-> 0, failed_queries |-> 0,
               sleeps |-> 0, slept |-> 0, observed |-> <<>>]

Init ==
    /\ op \in {"__init__", "upload_training_data", "create_custom_voice",
               "create_voice_model"}
    /\ max_workers \in (1..MaxWorkers) \cup {default_max_workers}
    /\ model_name_ok \in BOOLEAN
    /\ locale_ok \in BOOLEAN
    /\ readable \in BOOLEAN
    /\ dataset \in Datasets
    /\ (~readable) => dataset = <<>>
    /\ op \in {"__init__", "upload_training_data", "create_voice_model"}
          => (model_name_ok /\ locale_ok)
    /\ op = "upload_training_data" => max_workers \in 1..MaxWorkers
    /\ op # "upload_training_data" => max_workers = default_max_workers
    /\ op = "__init__" => (readable /\ dataset = <<>>)
    /\ environ \in Environs
    /\ config = AzureConfig(environ)
    /\ client \in {NewClient(path) : path \in BOOLEAN} \cup {ConstructedClient}
    /\ IF op = "__init__"
       THEN client.state = "new"
       ELSE client = ConstructedClient /\ config = CompleteConfig
            /\ environ["AZURE_CONTAINER_NAME"] = "None"
    /\ main = IF op = "create_voice_model" THEN "called" ELSE "not_called"
    /\ job_status = "Pending"
    /\ up = IF op \in {"upload_training_data", "create_custom_voice"}
            THEN "ensure_container" ELSE "not_called"
    /\ upErr = "none"
    /\ total_size = 0
    /\ sem = 0
    /\ tasks = <<>>
    /\ failures = <<>>
    /\ containerExists \in BOOLEAN
    /\ op \in {"__init__", "create_voice_model"} => ~containerExists
    /\ creations = IF containerExists THEN {"other"} ELSE {}
    /\ manifestStored = FALSE
    /\ blobs = [n \in Names |-> NoHash]
    /\ remoteOps = {}
    /\ cv = IF op = "create_custom_voice" THEN "upload" ELSE "not_called"
    /\ cvErr = "none"
    /\ submitted = FALSE
    /\ mon = NewMonitor
    /\ model = "none"

\* ------------------------------------------- upload_training_data, its end
\* The except clause of upload_training_data logs and re-raises; when the
\* caller is create_custom_voice its except clause does the same, in the same
\* step of the event loop.
UploadRaisesSwallowed(e) ==
    /\ up' = "raised"
    /\ upErr' = e
    /\ cv' = IF cv = "upload" THEN "validate" ELSE cv
    /\ cvErr' = cvErr

UploadRaises(e) ==
    /\ up' = "raised"
    /\ upErr' = e
    /\ IF cv = "upload"
       THEN cv' = "raised" /\ cvErr' = e
       ELSE UNCHANGED <<cv, cvErr>>

UploadReturns ==
    /\ up' = "returned"
    /\ upErr' = upErr
    /\ cv' = IF cv = "upload" THEN "validate" ELSE cv
    /\ cvErr' = cvErr

\* ------------------------------------------------ upload_training_data
ensure_container_exists_no_catch ==
    /\ up = "ensure_container"
    /\ remoteOps' = remoteOps \cup {"create_container"}
    /\ \/ /\ ~containerExists
          /\ containerExists' = TRUE
          /\ creations' = creations \cup {"self"}
          /\ up' = "load"
          /\ UNCHANGED <<upErr, cv, cvErr>>
       \/ /\ containerExists
          /\ UNCHANGED <<containerExists, creations>>
          /\ UploadRaises("ResourceExistsError")
       \/ /\ UNCHANGED <<containerExists, creations>>
          /\ UploadRaises("AzureError")
    /\ UNCHANGED <<inputVars, total_size, sem, tasks, failures,
                   manifestStored, blobs, submitted, mon, model>>

ensure_container_exists ==
    /\ up = "ensure_container"
    /\ remoteOps' = remoteOps \cup {"create_container"}
    /\ \/ /\ ~containerExists                 \* created
          /\ containerExists' = TRUE
          /\ creations' = creations \cup {"self"}
          /\ up' = "load"
          /\ UNCHANGED <<upErr, cv, cvErr>>
       \/ /\ containerExists                  \* ResourceExistsError: pass
          /\ UNCHANGED <<containerExists, creations>>
          /\ up' = "load"
          /\ UNCHANGED <<upErr, cv, cvErr>>
       \/ /\ UNCHANGED <<containerExists, creations>>   \* any other AzureError
          /\ UploadRaises("AzureError")
    /\ UNCHANGED <<inputVars, total_size, sem, tasks, failures,
                   manifestStored, blobs, submitted, mon, model>>

load_and_validate_dataset ==
    /\ up = "load"
    /\ IF ~readable
       THEN UploadRaises("OSError")
       ELSE IF ~validate_dataset_format(dataset)
            THEN UploadRaises("ValueError")
            ELSE up' = "calc_size" /\ UNCHANGED <<upErr, cv, cvErr>>
    /\ UNCHANGED <<inputVars, total_size, sem, tasks, failures, storeVars,
                   submitted, mon, model>>

calculate_total_size_step ==
    /\ up = "calc_size"
    /\ total_size' = calculate_total_size(dataset)
    /\ up' = "quota"
    /\ UNCHANGED <<inputVars, upErr, sem, tasks, failures, storeVars, voiceVars>>

validate_storage_quota ==
    /\ up = "quota"
    /\ up' = "upload_manifest"
    /\ UNCHANGED <<inputVars, upErr, total_size, sem, tasks, failures,
                   storeVars, voiceVars>>

\* _upload_dataset_file is called at line 107 and defined nowhere in the
\* class: it is modelled as the design describes it (one put of the manifest
\* object that succeeds or raises). The code's own outcome, an AttributeError
\* on every call, is the raising branch.
upload_dataset_file ==
    /\ up = "upload_manifest"
    /\ remoteOps' = remoteOps \cup {"put_manifest"}
    /\ \/ /\ manifestStored' = TRUE
          /\ up' = "acquire"
          /\ UNCHANGED <<upErr, cv, cvErr>>
       \/ /\ manifestStored' = manifestStored
          /\ UploadRaises("AzureError")
    /\ UNCHANGED <<inputVars, total_size, sem, tasks, failures,
                   containerExists, creations, blobs, submitted, mon, model>>

\* async with asyncio.Semaphore(max_workers): the semaphore is created and
\* acquired once by upload_training_data itself; the coroutines are then
\* created and handed to gather, which schedules all of them.
start_gather_before_manifest ==
    /\ up \in {"upload_manifest", "acquire"}
    /\ max_workers > 0
    /\ sem' = max_workers - 1
    /\ tasks' = [i \in 1..Len(dataset) |-> NewTask]
    /\ up' = "gather"
    /\ UNCHANGED <<inputVars, upErr, total_size, failures, storeVars, voiceVars>>

start_gather ==
    /\ up = "acquire"
    /\ max_workers > 0
    /\ sem' = max_workers - 1
    /\ tasks' = [i \in 1..Len(dataset) |-> NewTask]
    /\ up' = "gather"
    /\ UNCHANGED <<inputVars, upErr, total_size, failures, storeVars, voiceVars>>

\* ---------------------------------------------------- _upload_audio_file
TaskFile(i) == dataset[i].audio_file

Settled(t) == t.pc \in {"ok", "failed"}
Active(t) == t.pc \in {"hash", "put", "verify", "sleep"}

\* A coroutine handed to gather takes no permit of the semaphore: it may
\* start as soon as gather has scheduled it.
MayStart(ts, i) == ts[i].pc = "pending"

IsLastAttemptOffByOne(attempt) == attempt = max_retries

IsLastAttempt(attempt) == attempt = max_retries - 1

BackoffDoubled(attempt) == retry_delay * Pow2(attempt + 1)

Backoff(attempt) == retry_delay * Pow2(attempt)

FailAttemptMismatchFinal(t, kind) ==
    IF IsLastAttempt(t.attempt) \/ kind = "AudioProcessingError"
    THEN [t EXCEPT !.pc = "failed",
                   !.err = [kind |-> kind, attempt |-> t.n_attempts]]
    ELSE [t EXCEPT !.pc = "sleep",
                   !.sleeps = Append(@, Backoff(t.attempt))]

\* except Exception as e: every exception is handled alike, whatever its kind.
FailAttempt(t, kind) ==
    IF IsLastAttempt(t.attempt)
    THEN [t EXCEPT !.pc = "failed",
                   !.err = [kind |-> kind, attempt |-> t.n_attempts]]
    ELSE [t EXCEPT !.pc = "sleep",
                   !.sleeps = Append(@, Backoff(t.attempt))]

TaskUnchanged ==
    UNCHANGED <<inputVars, up, upErr, total_size, sem, failures,
                containerExists, creations, manifestStored, voiceVars>>

task_start(i) ==
    /\ up = "gather"
    /\ MayStart(tasks, i)
    /\ tasks' = [tasks EXCEPT ![i].pc = "hash", ![i].n_attempts = 1]
    /\ UNCHANGED <<blobs, remoteOps>>
    /\ TaskUnchanged

\* _calculate_file_hash, then aiofiles.open and read of the same file.
task_read(i) ==
    /\ up = "gather"
    /\ tasks[i].pc = "hash"
    /\ tasks' = [tasks EXCEPT ![i] =
          IF Exists(TaskFile(i))
          THEN [@ EXCEPT !.pc = "put",
                         !.file_hash = calculate_file_hash(TaskFile(i))]
          ELSE FailAttempt(@, "FileNotFoundError")]
    /\ UNCHANGED <<blobs, remoteOps>>
    /\ TaskUnchanged

\* blob_client.upload_blob(content, overwrite=True, metadata={file_hash}).
task_put(i) ==
    /\ up = "gather"
    /\ tasks[i].pc = "put"
    /\ remoteOps' = remoteOps \cup {"put_audio"}
    /\ \/ /\ blobs' = [blobs EXCEPT ![blob_name(TaskFile(i))] = tasks[i].file_hash]
          /\ tasks' = [tasks EXCEPT ![i].pc = "verify"]
       \/ /\ blobs' = blobs
          /\ tasks' = [tasks EXCEPT ![i] = FailAttempt(@, "AzureError")]
    /\ TaskUnchanged

\* _verify_upload: the stored metadata is read back and compared.
verify_upload_present(name, file_hash) == blobs[name] # NoHash

verify_upload(name, file_hash) == blobs[name] = file_hash

task_verify(i) ==
    /\ up = "gather"
    /\ tasks[i].pc = "verify"
    /\ remoteOps' = remoteOps \cup {"get_properties"}
    /\ blobs' = blobs
    /\ \/ tasks' = [tasks EXCEPT ![i] =
             IF verify_upload(blob_name(TaskFile(i)), @.file_hash)
             THEN [@ EXCEPT !.pc = "ok"]
             ELSE FailAttempt(@, "AudioProcessingError")]
       \/ tasks' = [tasks EXCEPT ![i] = FailAttempt(@, "AzureError")]
    /\ TaskUnchanged

\* asyncio.sleep(retry_delay * 2 ** attempt) is over: next iteration.
task_wake(i) ==
    /\ up = "gather"
    /\ tasks[i].pc = "sleep"
    /\ tasks' = [tasks EXCEPT ![i].pc = "hash",
                              ![i].attempt = @ + 1,
                              ![i].n_attempts = @ + 1]
    /\ UNCHANGED <<blobs, remoteOps>>
    /\ TaskUnchanged

\* ------------------------------------------------ gather and its results
\* gather(*upload_tasks, return_exceptions=True) resolves when every task
\* has settled.
GatherReadyFirstException(ts) ==
    \/ \A i \in DOMAIN ts : Settled(ts[i])
    \/ \E i \in DOMAIN ts : ts[i].pc = "failed"

GatherReady(ts) == \A i \in DOMAIN ts : Settled(ts[i])

Results(ts) == [i \in DOMAIN ts |-> IF ts[i].pc = "failed" THEN ts[i].err ELSE NoErr]

IsAudioProcessingError(r) == r.kind = "AudioProcessingError"

IsException(r) == r.kind # "none"

FailuresFirstOnly(results) ==
    IF SelectSeq(results, IsException) = <<>> THEN <<>>
    ELSE <<Head(SelectSeq(results, IsException))>>

Failures(results) == SelectSeq(results, IsException)

gather_done ==
    /\ up = "gather"
    /\ GatherReady(tasks)
    /\ sem' = sem + 1
    /\ failures' = Failures(Results(tasks))
    /\ IF failures' # <<>>
       THEN UploadRaises("AudioProcessingError")
       ELSE UploadReturns
    /\ UNCHANGED <<inputVars, total_size, tasks, storeVars, submitted, mon, model>>

\* --------------------------------------------------- create_custom_voice
\* _validate_model_parameters and _create_voice_model are called at lines
\* 153 and 156 and defined nowhere in the class: they are modelled as the
\* design describes them (a check of name and locale; a submission that
\* succeeds or raises).
validate_model_parameters ==
    /\ cv = "validate"
    /\ IF model_name_ok /\ locale_ok
       THEN cv' = "create" /\ cvErr' = cvErr
       ELSE cv' = "raised" /\ cvErr' = "ParameterError"
    /\ UNCHANGED <<inputVars, uploadVars, storeVars, submitted, mon, model>>

create_voice_model ==
    /\ cv = "create"
    /\ \/ /\ submitted' = TRUE
          /\ cv' = "monitor"
          /\ cvErr' = cvErr
          /\ mon' = [mon EXCEPT !.pc = "query"]
       \/ /\ submitted' = submitted
          /\ cv' = "raised"
          /\ cvErr' = "AzureError"
          /\ mon' = mon
    /\ UNCHANGED <<inputVars, uploadVars, storeVars, model>>

\* ------------------------------------------- _monitor_training_progress
TerminalStatuses == {"Succeeded", "Failed"}
NonTerminalStatuses == {"Pending", "Running"}
Statuses == TerminalStatuses \cup NonTerminalStatuses

IsSucceeded(s) == s = "Succeeded"

IsTerminal(s) == s \in TerminalStatuses

\* _get_model_status is a placeholder (lines 321-324): the status source is
\* an input, each query yielding a status or raising. The placeholder's own
\* outcome (None, on which status['status'] raises) is the raising branch.
monitor_query ==
    /\ cv = "monitor"
    /\ mon.pc = "query"
    /\ \/ \E s \in {job_status} :
            /\ mon' = [mon EXCEPT !.queries = @ + 1,
                                  !.observed = Append(@, s),
                                  !.pc = IF IsTerminal(s) THEN "returned" ELSE "sleep"]
            /\ IF IsTerminal(s)
               THEN cv' = "returned" /\ model' = s
               ELSE cv' = cv /\ model' = model
            /\ cvErr' = cvErr
       \/ /\ mon' = [mon EXCEPT !.queries = @ + 1, !.failed_queries = @ + 1,
                                !.pc = "raised"]
          /\ cv' = "raised"
          /\ cvErr' = "QueryError"
          /\ model' = model
    /\ UNCHANGED <<inputVars, uploadVars, storeVars, submitted>>

\* The training service: while it is being monitored the job may come to
\* report any other status.
job_progress ==
    /\ cv = "monitor"
    /\ mon.pc \in {"query", "sleep"}
    /\ job_status' \in Statuses \ {job_status}
    /\ UNCHANGED <<op, max_workers, model_name_ok, locale_ok, readable, dataset,
                   environ, config, client, main, uploadVars, storeVars,
                   voiceVars>>

monitor_wake_exits ==
    /\ cv = "monitor"
    /\ mon.pc = "sleep"
    /\ mon.queries < MaxPolls
    /\ mon' = [mon EXCEPT !.pc = "exited", !.sleeps = @ + 1,
                          !.slept = @ + poll_interval]
    /\ UNCHANGED <<inputVars, uploadVars, storeVars, cv, cvErr, submitted, model>>

monitor_wake_no_sleep ==
    /\ cv = "monitor"
    /\ mon.pc = "sleep"
    /\ mon.queries < MaxPolls
    /\ mon' = [mon EXCEPT !.pc = "query"]
    /\ UNCHANGED <<inputVars, uploadVars, storeVars, cv, cvErr, submitted, model>>

monitor_wake ==
    /\ cv = "monitor"
    /\ mon.pc = "sleep"
    /\ mon.queries < MaxPolls
    /\ mon' = [mon EXCEPT !.pc = "query", !.sleeps = @ + 1,
                          !.slept = @ + poll_interval]
    /\ UNCHANGED <<inputVars, uploadVars, storeVars, cv, cvErr, submitted, model>>

\* ------------------------------------------------- the remote store's users
\* Another caller of the same storage account creates the container first.
concurrent_create_container ==
    /\ up = "ensure_container"
    /\ ~containerExists
    /\ containerExists' = TRUE
    /\ creations' = creations \cup {"other"}
    /\ UNCHANGED <<inputVars, uploadVars, manifestStored, blobs, remoteOps,
                   voiceVars>>

\* ------------------------------------------------ AzureVoiceClient.__init__
\* AzureConfig.load_from_file is called at line 55 and defined nowhere: it is
\* modelled as replacing the class attributes by those of the file, or
\* raising (which is also what the call does as the code stands).
LoadOutcomes(path) == IF path THEN Configs ELSE {config}

\* __init__ has no await: _initialize_config (load, validate_config) and
\* _setup_clients run in one step.
init_client ==
    /\ op = "__init__"
    /\ client.state = "new"
    /\ \/ /\ client.config_path
          /\ config' = config
          /\ client' = [client EXCEPT !.state = "raised",
                                      !.err = [kind |-> "LoadError", missing |-> <<>>]]
       \/ \E loaded \in LoadOutcomes(client.config_path) :
            /\ config' = loaded
            /\ IF missing_vars(loaded) # <<>>
               THEN client' = [client EXCEPT !.state = "raised",
                       !.err = [kind |-> "ValueError",
                                missing |-> missing_vars(loaded)]]
               ELSE \/ client' = [client EXCEPT !.state = "constructed",
                                                !.clients = AllClients]
                    \/ \E made \in {{}, {"speech_config"}} :
                         client' = [client EXCEPT !.state = "raised",
                              !.clients = made,
                              !.err = [kind |-> "ClientError", missing |-> <<>>]]
    /\ UNCHANGED <<op, max_workers, model_name_ok, locale_ok, readable, dataset,
                   environ, main, job_status, uploadVars, storeVars, voiceVars>>

\* ------------------------------- VoiceSynthesisSystem.create_voice_model
\* self.azure_client.create_custom_voice(model_name, dataset_file) is called
\* without await (and outside any event loop): the call only builds a
\* coroutine object, which is never run.
CallWithoutAwait == "coroutine"

Truthy(v) == v \notin {"None", "False", ""}

main_create_voice_model ==
    /\ op = "create_voice_model"
    /\ main = "called"
    /\ cv = "not_called"
    /\ cv' = "never_awaited"
    /\ main' = IF Truthy(CallWithoutAwait) THEN "success" ELSE "failure"
    /\ UNCHANGED <<op, max_workers, model_name_ok, locale_ok, readable, dataset,
                   environ, config, client, job_status, uploadVars, storeVars,
                   cvErr, submitted, mon, model>>

Next ==
    \/ init_client
    \/ main_create_voice_model
    \/ concurrent_create_container
    \/ ensure_container_exists
    \/ load_and_validate_dataset
    \/ calculate_total_size_step
    \/ validate_storage_quota
    \/ upload_dataset_file
    \/ start_gather
    \/ \E i \in DOMAIN tasks : task_start(i)
    \/ \E i \in DOMAIN tasks : task_read(i)
    \/ \E i \in DOMAIN tasks : task_put(i)
    \/ \E i \in DOMAIN tasks : task_verify(i)
    \/ \E i \in DOMAIN tasks : task_wake(i)
    \/ gather_done
    \/ validate_model_parameters
    \/ create_voice_model
    \/ job_progress
    \/ monitor_query
    \/ monitor_wake

Spec == Init /\ [][Next]_vars

\* The event loop resumes the monitor's coroutine whenever the await it is
\* suspended on (the status query, the sleep) has completed. Nothing is
\* assumed of the training service.
FairSpec == Spec /\ WF_vars(monitor_query) /\ WF_vars(monitor_wake)

\* ====================================================== checked properties
ActiveTasks == {i \in DOMAIN tasks : Active(tasks[i])}

BatchOutcome == up = "returned" \/ (up = "raised" /\ upErr = "AudioProcessingError")

\* C1: during upload_training_data(dataset, max_workers=N) the number of
\* audio uploads that have started and not yet settled is at most N.
C1_AtMostMaxWorkersActive == Cardinality(ActiveTasks) <= max_workers

\* C2: upload_training_data never returns success when an audio upload ended
\* in failure: on return every upload succeeded, and once the audio uploads
\* have run a failed upload makes the operation raise the batch error, whose
\* failures are the exceptions of the failed uploads.
C2_NoSuccessWithFailedUpload ==
    /\ up = "returned" => \A i \in DOMAIN tasks : tasks[i].pc = "ok"
    /\ (up \in {"returned", "raised"} /\ \E i \in DOMAIN tasks : tasks[i].pc = "failed")
          => /\ up = "raised"
             /\ upErr = "AudioProcessingError"
             /\ Len(failures) = Cardinality({i \in DOMAIN tasks : tasks[i].pc = "failed"})

C2_Witness ==
    /\ up = "raised"
    /\ upErr = "AudioProcessingError"
    /\ \E i, j \in DOMAIN tasks :
          /\ tasks[i].pc = "failed" /\ tasks[i].err.kind = "FileNotFoundError"
          /\ tasks[j].pc = "ok"

\* C3: when a record of the dataset lacks a required field, the operation
\* fails with no remote-store operation having been issued.
C3_ValidationBeforeRemoteCalls ==
    (up = "raised" /\ upErr = "ValueError") => remoteOps = {}

\* C4: a single-file upload is attempted at most 3 times; it fails only after
\* exactly 3 failed attempts, the error raised being the one of the third
\* attempt, and it never sleeps after the third attempt.
C4_ThreeAttemptsThenFail ==
    \A i \in DOMAIN tasks :
        /\ tasks[i].n_attempts <= 3
        /\ tasks[i].pc = "failed" =>
              /\ tasks[i].n_attempts = 3
              /\ tasks[i].err.attempt = 3
              /\ tasks[i].err.kind # "none"
        /\ tasks[i].pc = "sleep" => tasks[i].n_attempts < 3

C4_Witness ==
    \E i \in DOMAIN tasks :
        /\ tasks[i].pc = "failed"
        /\ tasks[i].n_attempts = 3
        /\ tasks[i].err = [kind |-> "AzureError", attempt |-> 3]

\* C5: a single-file upload returns success only in the step in which its
\* verification found the digest stored under its remote key equal to the
\* local digest of the file, after at most 3 attempts of which all but the
\* last failed.
C5_SuccessOnlyAfterVerifiedDigest ==
    [][\A i \in DOMAIN tasks :
          (tasks[i].pc # "ok" /\ tasks'[i].pc = "ok") =>
              /\ tasks[i].pc = "verify"
              /\ blobs'[blob_name(TaskFile(i))] = calculate_file_hash(TaskFile(i))
              /\ tasks'[i].n_attempts = Len(tasks'[i].sleeps) + 1
              /\ tasks'[i].n_attempts <= 3]_vars

C5_Witness ==
    \E i \in DOMAIN tasks :
        /\ tasks[i].pc = "ok"
        /\ tasks[i].n_attempts = 3
        /\ tasks[i].sleeps = <<1, 2>>
        /\ blobs[blob_name(TaskFile(i))] = calculate_file_hash(TaskFile(i))

\* C6: a non-retryable failure (the local file is missing) surfaces on the
\* first attempt: exactly 1 attempt, no backoff sleep.
C6_MissingFileFailsOnFirstAttempt ==
    \A i \in DOMAIN tasks :
        ~Exists(TaskFile(i)) => (tasks[i].n_attempts <= 1 /\ tasks[i].sleeps = <<>>)

\* C7: the batch outcome (return, or raise of the batch error) is produced
\* only after every record's upload task has settled, each one as a success
\* or with its 3 attempts exhausted, whatever happened to the others.
C7_OutcomeOnlyAfterAllSettled ==
    BatchOutcome =>
        /\ Len(tasks) = Len(dataset)
        /\ \A i \in DOMAIN tasks :
              \/ tasks[i].pc = "ok"
              \/ tasks[i].pc = "failed" /\ tasks[i].n_attempts = max_retries

C7_Witness ==
    /\ BatchOutcome
    /\ \E i, j \in DOMAIN tasks :
          /\ i < j
          /\ tasks[i].pc = "failed"
          /\ tasks[j].pc = "ok"
          /\ tasks[j].n_attempts = 3

\* C8: the monitor returns only a status in {Succeeded, Failed}, at the first
\* terminal status it observes: after k non-terminal statuses it has made
\* k+1 queries and k sleeps of 60.
C8_ReturnsAtFirstTerminalStatus ==
    mon.pc = "returned" =>
        /\ mon.queries = Len(mon.observed)
        /\ mon.sleeps = mon.queries - 1
        /\ mon.slept = 60 * mon.sleeps
        /\ model = mon.observed[Len(mon.observed)]
        /\ model \in {"Succeeded", "Failed"}
        /\ \A j \in 1..(Len(mon.observed) - 1) : mon.observed[j] \notin {"Succeeded", "Failed"}

C8_Witness ==
    /\ mon.pc = "returned"
    /\ mon.observed = <<"Running", "Running", "Succeeded">>
    /\ mon.sleeps = 2
    /\ mon.slept = 120
    /\ model = "Succeeded"

\* C9: a failed status query does not end monitoring: monitoring fails only
\* after more than one consecutive failed query.
C9_QueryFailureIsRetried ==
    mon.pc = "raised" => mon.failed_queries > 1

\* C10: when model_name or locale is invalid, create_custom_voice fails
\* before any dataset upload or other remote-store operation has happened.
C10_ParametersValidatedFirst ==
    (op = "create_custom_voice" /\ ~(model_name_ok /\ locale_ok)) =>
        (remoteOps = {} /\ ~manifestStored /\ tasks = <<>>)

\* C11: create_custom_voice returns a VoiceModel only if upload, parameter
\* validation, submission and monitoring all completed without error; when a
\* step fails the operation raises that failure, no later step has run and no
\* VoiceModel is returned.
C11_AllStepsOrFirstFailure ==
    /\ cv = "returned" =>
          /\ up = "returned"
          /\ model_name_ok /\ locale_ok
          /\ submitted
          /\ mon.pc = "returned"
          /\ model \in {"Succeeded", "Failed"}
          /\ cvErr = "none"
    /\ cv = "raised" =>
          /\ model = "none"
          /\ cvErr # "none"
          /\ up = "raised" => (cvErr = upErr /\ ~submitted /\ mon = NewMonitor)
          /\ cvErr = "ParameterError" =>
                (up = "returned" /\ ~submitted /\ mon = NewMonitor)
          /\ ~submitted => mon = NewMonitor
          /\ cvErr = "QueryError" => (submitted /\ mon.pc = "raised")
    /\ model # "none" => cv = "returned"

C11_Witness ==
    /\ cv = "returned"
    /\ model = "Succeeded"
    /\ Len(tasks) = 2
    /\ mon.queries = 2

\* C12: VoiceSynthesisSystem.create_voice_model reports success only if the
\* upload, the training submission and the monitoring of create_custom_voice
\* have run to completion without failure.
C12_SuccessOnlyAfterPipelineRan ==
    main = "success" =>
        (cv = "returned" /\ up = "returned" /\ submitted /\ mon.pc = "returned")

\* C13: when some audio files of a valid dataset are missing from disk and
\* the remote store accepts the container and the manifest, the manifest is
\* uploaded, every upload task runs, the batch fails with the batch error and
\* its failures hold one entry per upload that failed, among them every
\* missing file; the total size counts the existing files only.
MissingRecords == {i \in 1..Len(dataset) : ~Exists(dataset[i].audio_file)}

C13_MissingFilesAllReported ==
    (MissingRecords # {} /\ readable /\ validate_dataset_format(dataset)
        /\ up \in {"returned", "raised"} /\ upErr # "AzureError") =>
        /\ up = "raised"
        /\ upErr = "AudioProcessingError"
        /\ manifestStored
        /\ total_size = 10 * Cardinality({i \in 1..Len(dataset) : dataset[i].audio_file = FileA1})
                        + 20 * Cardinality({i \in 1..Len(dataset) : dataset[i].audio_file = FileA2})
        /\ Len(tasks) = Len(dataset)
        /\ \A i \in MissingRecords :
              tasks[i].pc = "failed" /\ tasks[i].err.kind = "FileNotFoundError"
        /\ \A i \in DOMAIN tasks \ MissingRecords :
              \/ tasks[i].pc = "ok" /\ blobs[blob_name(TaskFile(i))] # NoHash
              \/ tasks[i].pc = "failed"
        /\ Len(failures) = Cardinality({i \in DOMAIN tasks : tasks[i].pc = "failed"})
        /\ \A i \in DOMAIN tasks :
              tasks[i].pc = "failed" => \E k \in DOMAIN failures : failures[k] = tasks[i].err

C13_Witness ==
    /\ dataset = <<GoodRecord(FileB), GoodRecord(FileA1)>>
    /\ up = "raised"
    /\ manifestStored
    /\ tasks[1].pc = "failed"
    /\ tasks[2].pc = "ok"
    /\ blobs["a.wav"] = calculate_file_hash(FileA1)
    /\ Len(failures) = 1
    /\ total_size = 10

\* C14: ensuring the container exists is idempotent: an existing container,
\* also one another caller created in the meantime, is not an error, the
\* pipeline proceeds, and there is exactly one container afterwards.
PastEnsureContainer ==
    up \in {"load", "calc_size", "quota", "upload_manifest", "acquire",
            "gather", "returned"}

C14_EnsureContainerIdempotent ==
    /\ upErr # "ResourceExistsError"
    /\ Cardinality(creations) <= 1
    /\ containerExists <=> Cardinality(creations) = 1
    /\ PastEnsureContainer => containerExists

C14_Witness ==
    /\ creations = {"other"}
    /\ "create_container" \in remoteOps
    /\ up = "returned"
    /\ Len(tasks) = 1

\* C15: with any required setting (SPEECH_KEY, SPEECH_REGION,
\* STORAGE_CONNECTION_STRING) unset or empty, construction fails with no
\* service client created; the configuration error lists exactly the missing
\* settings; an unset container name is no error and is voice-samples.
MissingSettings ==
    {v \in {"SPEECH_KEY", "SPEECH_REGION", "STORAGE_CONNECTION_STRING"} :
        config[v] \in {"None", ""}}

C15_MissingSettingsFailConstruction ==
    client.state # "new" =>
        /\ MissingSettings # {} =>
              /\ client.state = "raised"
              /\ client.clients = {}
              /\ client.err.kind \in {"ValueError", "LoadError"}
              /\ ~client.config_path => client.err.kind = "ValueError"
        /\ client.err.kind = "ValueError" =>
              /\ {client.err.missing[k] : k \in DOMAIN client.err.missing} = MissingSettings
              /\ Len(client.err.missing) = Cardinality(MissingSettings)
              /\ client.clients = {}
        /\ client.state = "constructed" =>
              (MissingSettings = {} /\ client.clients = AllClients)
        /\ (environ["AZURE_CONTAINER_NAME"] = "None" /\ ~client.config_path) =>
              /\ config.CONTAINER_NAME = "voice-samples"
              /\ MissingSettings = {} => client.err.kind # "ValueError"

C15_Witness ==
    /\ client.state = "raised"
    /\ client.err = [kind |-> "ValueError",
                     missing |-> <<"SPEECH_KEY", "STORAGE_CONNECTION_STRING">>]
    /\ config.SPEECH_KEY = ""
    /\ config.STORAGE_CONNECTION_STRING = "None"
    /\ environ["AZURE_CONTAINER_NAME"] = "None"

\* C16: every manifest written by DatasetPreparation.export_dataset passes
\* the upload pipeline's required-field validation.
C16_ExportedManifestPassesValidation ==
    dataset \in ExportedDatasets => ~(up = "raised" /\ upErr = "ValueError")

\* C17: the sleeps of a single-file upload are 1 then 2, one between two
\* consecutive attempts and none after the third; an upload that failed has
\* slept 3 in total.
RECURSIVE SeqSum(_)
SeqSum(q) == IF q = <<>> THEN 0 ELSE Head(q) + SeqSum(Tail(q))

C17_BackoffOneThenTwo ==
    \A i \in DOMAIN tasks :
        /\ tasks[i].sleeps \in {<<>>, <<1>>, <<1, 2>>}
        /\ Len(tasks[i].sleeps) =
              IF tasks[i].pc = "pending" THEN 0
              ELSE IF tasks[i].pc = "sleep" THEN tasks[i].n_attempts
              ELSE tasks[i].n_attempts - 1
        /\ tasks[i].pc = "failed" => SeqSum(tasks[i].sleeps) = 3

C17_Witness ==
    \E i \in DOMAIN tasks :
        /\ tasks[i].pc = "failed"
        /\ tasks[i].sleeps = <<1, 2>>
        /\ tasks[i].err.kind = "FileNotFoundError"

\* C18: a verification that finds the stored digest different from the local
\* one never returns success: it ends the attempt as a failure, followed by a
\* backoff sleep if fewer than 3 attempts were made and by the failure of the
\* upload on the third.
C18_MismatchIsRetriedFailure ==
    [][\A i \in DOMAIN tasks :
          (/\ tasks[i].pc = "verify"
           /\ blobs[blob_name(TaskFile(i))] # tasks[i].file_hash
           /\ tasks'[i] # tasks[i]) =>
              /\ tasks'[i].pc # "ok"
              /\ tasks'[i].n_attempts = tasks[i].n_attempts
              /\ IF tasks[i].n_attempts < 3
                 THEN /\ tasks'[i].pc = "sleep"
                      /\ Len(tasks'[i].sleeps) = Len(tasks[i].sleeps) + 1
                 ELSE /\ tasks'[i].pc = "failed"
                      /\ tasks'[i].err.attempt = 3]_vars

C18_Witness ==
    \E i \in DOMAIN tasks :
        /\ tasks[i].pc = "failed"
        /\ tasks[i].err = [kind |-> "AudioProcessingError", attempt |-> 3]
        /\ blobs[blob_name(TaskFile(i))] # tasks[i].file_hash

\* C19: the manifest upload completes before the first audio upload starts;
\* when the manifest upload fails no audio upload is started and the
\* operation fails.
C19_ManifestBeforeAudio ==
    /\ tasks # <<>> => manifestStored
    /\ "put_audio" \in remoteOps => manifestStored
    /\ ("put_manifest" \in remoteOps /\ ~manifestStored) =>
          /\ up = "raised"
          /\ tasks = <<>>
          /\ remoteOps \cap {"put_audio", "get_properties"} = {}

C19_Witness ==
    /\ manifestStored
    /\ \E i \in DOMAIN tasks : tasks[i].pc = "hash" /\ tasks[i].n_attempts = 1
    /\ "put_audio" \notin remoteOps

\* C20: a status query follows the previous one only after a full sleep of
\* one poll interval, and once a terminal status was returned no further
\* query is made and the returned status never changes.
C20_PollSpacingAndTerminalStable ==
    [][/\ mon'.queries = mon.queries + 1 =>
             (mon.sleeps = mon.queries /\ mon.slept = poll_interval * mon.queries)
       /\ model # "none" => (model' = model /\ mon' = mon)]_vars

C20_Witness ==
    /\ mon.pc = "returned"
    /\ model = "Failed"
    /\ mon.queries = 2
    /\ mon.slept = 60

\* C21: under fair scheduling, when from some point on the job reports a
\* terminal status and no query fails, the monitor eventually returns; and
\* as long as every status it has seen is non-terminal and no query failed
\* it has neither returned nor failed, whatever the number of polls.
PollBoundReached == mon.pc = "sleep" /\ mon.queries >= MaxPolls

C21_ReturnsIffJobTerminates ==
    /\ (/\ <>[](job_status \in {"Succeeded", "Failed"})
        /\ [](mon.failed_queries = 0)
        /\ [](~PollBoundReached))
          => [](cv = "monitor" => <>(mon.pc = "returned"))
    /\ []((/\ mon.failed_queries = 0
           /\ \A j \in DOMAIN mon.observed : mon.observed[j] \in {"Pending", "Running"})
             => mon.pc \in {"idle", "query", "sleep"})

C21_Witness ==
    /\ mon.pc = "returned"
    /\ mon.observed = <<"Pending", "Running", "Failed">>
    /\ mon.failed_queries = 0
    /\ job_status = "Failed"

\* C22: after upload_training_data returned success, the object stored under
\* each record's remote key carries the digest of that record's local file.
C22_EveryRecordStoredAfterSuccess ==
    up = "returned" =>
        \A i \in DOMAIN tasks :
            blobs[blob_name(TaskFile(i))] = calculate_file_hash(TaskFile(i))

\* C23: upload_training_data on a manifest with zero records does not return
\* success.
C23_EmptyDatasetRejected ==
    (readable /\ dataset = <<>>) => up # "returned"

====
